---- MODULE Spec2Model ----
(***************************************************************************)
(* Model of scripts/svn_copy_and_commit.py: one run of main() mirrors a    *)
(* source directory tree into a fresh Subversion working copy, reconciles  *)
(* the working copy with svn's view of it, and commits when svn reports a  *)
(* change.                                                                 *)
(*                                                                         *)
(* A directory tree is a function from the paths that exist (non-empty     *)
(* sequences of names, relative to the tree's root) to an entry: a         *)
(* directory, or a file with its content.  The root itself is not a key.   *)
(***************************************************************************)
EXTENDS Integers, Sequences, FiniteSets, TLC

\* ------------------------------------------------------------------ bounds
\* The number of entries (files and directories) that the trees drawn in an
\* initial state hold together: the source tree plus the repository content
\* (or plus what a pre-existing working copy holds besides its .svn).  Depth
\* is bounded by it too: a chain of n entries.
MaxEntries == 3

\* ------------------------------------------------------------------ trees
SvnDir == ".svn"
Names == {"a", "wc.db", SvnDir}
Contents == {"c1", "c2"}
MetaContent == "meta"

DirEntry == [kind |-> "dir", data |-> "-"]
FileEntry(c) == [kind |-> "file", data |-> c]
Kinds == {DirEntry} \cup {FileEntry(c) : c \in Contents}

EmptyTree == << >>
Root == << >>

Parent(p) == SubSeq(p, 1, Len(p) - 1)
Basename(p) == p[Len(p)]
Join(d, n) == Append(d, n)

\* q is p or an ancestor of p
IsPrefix(q, p) == Len(q) <= Len(p) /\ SubSeq(p, 1, Len(q)) = q

\* os.path.exists(os.path.join(root, p))
Exists(t, p) == p = Root \/ p \in DOMAIN t
\* os.path.isdir
IsDir(t, p) == p = Root \/ (p \in DOMAIN t /\ t[p].kind = "dir")
IsFile(t, p) == p \in DOMAIN t /\ t[p].kind = "file"

Restrict(t, keep) == [p \in keep |-> t[p]]
Put(t, p, e) == (p :> e) @@ t

\* os.remove(p) of an existing file / shutil.rmtree(p, ignore_errors=True):
\* p and everything under it is gone; a p that is not there is no error.
Remove(t, ps) == Restrict(t, {p \in DOMAIN t : \A q \in ps : ~IsPrefix(q, p)})

\* os.listdir(d)
Children(t, d) == {p \in DOMAIN t : Parent(p) = d}

\* the entries at or under d
Under(t, d) == {p \in DOMAIN t : IsPrefix(d, p)}

\* the tree without what is at or under the root metadata directory
NoMeta(t) == Restrict(t, {p \in DOMAIN t : ~IsPrefix(<<SvnDir>>, p)})
\* what is at or under the root metadata directory
Meta(t) == Restrict(t, Under(t, <<SvnDir>>))

\* Trees of at most k entries over the given names.
Addable(t, names) ==
  ({<<n>> : n \in names}
   \cup {Join(d, n) : d \in {q \in DOMAIN t : t[q].kind = "dir"}, n \in names})
  \ DOMAIN t

RECURSIVE Grow(_, _, _)
Grow(start, names, k) ==
  IF k <= 0 THEN {start}
  ELSE LET prev == Grow(start, names, k - 1)
       IN prev \cup UNION {{Put(t, p, v) : p \in Addable(t, names), v \in Kinds} : t \in prev}

Size(t) == Cardinality(DOMAIN t)

\* the orders in which os.listdir may list the names of a directory
Orders == {o \in [1..Cardinality(Names) -> Names] : \A n \in Names : \E i \in DOMAIN o : o[i] = n}

\* ------------------------------------------------- portable mirror (posix)
\* Deletion pass, lines 108-125: os.walk(wc_root), top-down.  `pending` holds
\* the directories os.walk has still to list; each is listed when it is
\* visited, so the listing is the current one.  A directory removed by
\* rmtree stays in os.walk's list, and listing it then yields nothing.
\* (the same walk with os.rmdir in place of shutil.rmtree: a directory that
\* still holds something is not removed)
RECURSIVE DeleteWalk_Rmdir(_, _, _)
DeleteWalk_Rmdir(src, wc, pending) ==
  IF pending = {} THEN wc
  ELSE LET d == CHOOSE x \in pending : TRUE
           files == {p \in Children(wc, d) : wc[p].kind = "file"}
           listed == {p \in Children(wc, d) : wc[p].kind = "dir"}
           dirs == IF d = Root THEN {p \in listed : Basename(p) # SvnDir} ELSE listed
           delFiles == {p \in files : ~Exists(src, p)}
           delDirs == {p \in dirs : ~Exists(src, p) /\ Children(wc, p) = {}}
       IN DeleteWalk_Rmdir(src, Remove(wc, delFiles \cup delDirs), (pending \ {d}) \cup dirs)

\* (the same walk without lines 120-125: files are deleted, directories not)
RECURSIVE DeleteWalk_FilesOnly(_, _, _)
DeleteWalk_FilesOnly(src, wc, pending) ==
  IF pending = {} THEN wc
  ELSE LET d == CHOOSE x \in pending : TRUE
           files == {p \in Children(wc, d) : wc[p].kind = "file"}
           listed == {p \in Children(wc, d) : wc[p].kind = "dir"}
           dirs == IF d = Root THEN {p \in listed : Basename(p) # SvnDir} ELSE listed
           delFiles == {p \in files : ~Exists(src, p)}
       IN DeleteWalk_FilesOnly(src, Remove(wc, delFiles), (pending \ {d}) \cup dirs)

RECURSIVE DeleteWalk(_, _, _)
DeleteWalk(src, wc, pending) ==
  IF pending = {} THEN wc
  ELSE LET d == CHOOSE x \in pending : TRUE
           files == {p \in Children(wc, d) : wc[p].kind = "file"}
           listed == {p \in Children(wc, d) : wc[p].kind = "dir"}
           \* dirs[:] = [d for d in dirs if d != ".svn"], at the root only
           dirs == IF d = Root THEN {p \in listed : Basename(p) # SvnDir} ELSE listed
           \* if not os.path.exists(src_file): os.remove(wc_file)
           delFiles == {p \in files : ~Exists(src, p)}
           \* if not os.path.exists(src_sub): shutil.rmtree(wc_sub, ignore_errors=True)
           delDirs == {p \in dirs : ~Exists(src, p)}
       IN DeleteWalk(src, Remove(wc, delFiles \cup delDirs), (pending \ {d}) \cup dirs)

DeletionPass(src, wc) == DeleteWalk(src, wc, {Root})

\* The copy pass either completes or raises; st is [tree, ok].
\* os.makedirs(dest_dir, exist_ok=True): FileExistsError when dest_dir is a file.
MakeDirs(st, d) ==
  IF ~st.ok \/ IsDir(st.tree, d) THEN st
  ELSE IF Exists(st.tree, d) \/ ~IsDir(st.tree, Parent(d)) THEN [st EXCEPT !.ok = FALSE]
  ELSE [st EXCEPT !.tree = Put(st.tree, d, DirEntry)]

\* shutil.copy2(src, dst): a dst that is a directory means dst/basename(src);
\* writing to a path that is a directory raises IsADirectoryError.
Copy2(st, e, dst) ==
  LET target == IF IsDir(st.tree, dst) THEN Join(dst, Basename(dst)) ELSE dst
  IN IF ~st.ok THEN st
     ELSE IF IsDir(st.tree, target) THEN [st EXCEPT !.ok = FALSE]
     ELSE [st EXCEPT !.tree = Put(st.tree, target, e)]

\* for f in files: shutil.copy2(...), in the order os.walk lists them
RECURSIVE CopyFiles(_, _, _, _, _)
CopyFiles(st, src, d, order, i) ==
  IF i > Len(order) THEN st
  ELSE LET f == Join(d, order[i])
       IN CopyFiles(IF IsFile(src, f) THEN Copy2(st, src[f], f) ELSE st, src, d, order, i + 1)

\* Copy pass, lines 127-132: os.walk(source_path), top-down and depth-first.
RECURSIVE CopyWalk(_, _, _, _)
RECURSIVE CopySubdirs(_, _, _, _, _)
CopyWalk(st, src, d, order) ==
  IF ~st.ok THEN st
  ELSE CopySubdirs(CopyFiles(MakeDirs(st, d), src, d, order, 1), src, d, order, 1)

CopySubdirs(st, src, d, order, i) ==
  IF i > Len(order) THEN st
  ELSE LET c == Join(d, order[i])
       IN CopySubdirs(IF c \in DOMAIN src /\ src[c].kind = "dir"
                        THEN CopyWalk(st, src, c, order) ELSE st,
                      src, d, order, i + 1)

CopyPass(src, wc, order) == CopyWalk([tree |-> wc, ok |-> TRUE], src, Root, order)

\* The deletion pass with another process at the working copy.  `gone` is
\* what that process removes, each entry right after os.walk has listed the
\* directory it is in.  st is [tree, ok]; order is the listing order.
\* for f in files: if not os.path.exists(src_file): os.remove(wc_file),
\* lines 115-119: os.remove of a file that is not there raises
\* FileNotFoundError.
RECURSIVE RemoveFiles(_, _, _, _, _, _)
RemoveFiles(st, src, files, d, order, i) ==
  IF i > Len(order) \/ ~st.ok THEN st
  ELSE LET f == Join(d, order[i])
       IN RemoveFiles(IF f \in files /\ ~Exists(src, f)
                        THEN (IF Exists(st.tree, f)
                                THEN [st EXCEPT !.tree = Remove(st.tree, {f})]
                                ELSE [st EXCEPT !.ok = FALSE])
                        ELSE st,
                      src, files, d, order, i + 1)

\* os.walk lists d (a directory that cannot be listed yields nothing), the
\* body of the loop runs, and os.walk goes on into the directories listed.
RECURSIVE DeleteVisit(_, _, _, _, _)
RECURSIVE DeleteSubdirs(_, _, _, _, _, _, _)
DeleteVisit(st, src, d, order, away) ==
  IF ~st.ok \/ ~IsDir(st.tree, d) THEN st
  ELSE LET listing == Children(st.tree, d)
           files == {p \in listing : st.tree[p].kind = "file"}
           listed == {p \in listing : st.tree[p].kind = "dir"}
           dirs == IF d = Root THEN {p \in listed : Basename(p) # SvnDir} ELSE listed
           raced == [st EXCEPT !.tree = Remove(st.tree, away \cap listing)]
           filed == RemoveFiles(raced, src, files, d, order, 1)
           \* shutil.rmtree(wc_sub, ignore_errors=True), lines 121-125
           cleared == IF filed.ok
                        THEN [filed EXCEPT !.tree = Remove(filed.tree, {p \in dirs : ~Exists(src, p)})]
                        ELSE filed
       IN DeleteSubdirs(cleared, src, dirs, d, order, 1, away)

DeleteSubdirs(st, src, dirs, d, order, i, away) ==
  IF i > Len(order) THEN st
  ELSE LET c == Join(d, order[i])
       IN DeleteSubdirs(IF c \in dirs THEN DeleteVisit(st, src, c, order, away) ELSE st,
                        src, dirs, d, order, i + 1, away)

DeletionPassRaced(src, wc, order, away) ==
  DeleteVisit([tree |-> wc, ok |-> TRUE], src, Root, order, away)

\* ------------------------------------------------- platform mirror (nt)
\* robocopy source wc /MIR /XD .svn, lines 99-104: "/MIR mirrors
\* (adds/removes), /XD .svn excludes .svn folder".  A directory named .svn is
\* left out on both sides: not copied from the source, not purged from the
\* working copy.
InSvnDir(t, p) == \E q \in DOMAIN t : IsPrefix(q, p) /\ Basename(q) = SvnDir /\ t[q].kind = "dir"

RobocopyMirror(src, wc) ==
  LET kept == {p \in DOMAIN wc : InSvnDir(wc, p)}
      copied == {p \in DOMAIN src :
                   /\ ~InSvnDir(src, p)
                   /\ \A q \in kept : ~IsPrefix(q, p)}
      \* an excluded directory goes with a parent that is purged
      live == {p \in kept : \A q \in DOMAIN wc :
                 (IsPrefix(q, p) /\ ~(q \in kept)) => (q \in copied /\ src[q].kind = "dir")}
  IN [p \in copied \cup live |-> IF p \in copied THEN src[p] ELSE wc[p]]

\* ------------------------------------------------------------ svn (external)
\* What the svn client does, as far as the script relies on it.  The working
\* copy's bookkeeping is `base` (the tree as checked out or last committed)
\* and `sched` (paths scheduled for addition or deletion).
MetaFile == <<SvnDir, "wc.db">>
FreshMeta == (MetaFile :> FileEntry(MetaContent)) @@ (<<SvnDir>> :> DirEntry)

\* svn works on a working copy whose administrative area is its own
MetaIntact(t) == MetaFile \in DOMAIN t /\ t[MetaFile] = FileEntry(MetaContent)

\* svn never looks at, nor versions, anything named .svn
SvnVisible(p) == \A i \in 1..Len(p) : p[i] # SvnDir

Scheduled(sc, p, how) == p \in DOMAIN sc /\ sc[p] = how
\* versioned and to be in the next revision
Versioned(b, sc, p) ==
  p = Root \/ (p \in DOMAIN b /\ ~Scheduled(sc, p, "delete")) \/ Scheduled(sc, p, "add")

ItemState(t, b, sc, p) ==
  IF Scheduled(sc, p, "delete") THEN "deleted"
  ELSE IF Scheduled(sc, p, "add") THEN (IF p \in DOMAIN t THEN "added" ELSE "missing")
  ELSE IF p \in DOMAIN b
    THEN IF ~(p \in DOMAIN t) THEN "missing"
         ELSE IF t[p].kind # b[p].kind THEN "obstructed"
         ELSE IF t[p] # b[p] THEN "modified"
         ELSE "normal"
  ELSE IF /\ p \in DOMAIN t
          /\ Versioned(b, sc, Parent(p))
          /\ IsDir(t, Parent(p))
          /\ (Parent(p) \in DOMAIN b => b[Parent(p)].kind = "dir")
    THEN "unversioned"
  ELSE "none"

\* the entries svn status reports (plain and --xml list the same paths)
StatusEntries(t, b, sc) ==
  {e \in {[path |-> p, item |-> ItemState(t, b, sc, p)] :
            p \in {q \in DOMAIN t \cup DOMAIN b \cup DOMAIN sc : SvnVisible(q)}} :
     e.item \notin {"normal", "none"}}

\* (root.findall("entry") in place of ".//entry": no entry is found)
MissingPaths_NoneFound(entries) == {}

\* parse_missing_paths_from_svn_status_xml, lines 38-48
MissingPaths(entries) == {e.path : e \in {x \in entries : x.item = "missing" /\ x.path # Root}}

\* svn rm --force p: p and what is versioned under it is scheduled for deletion
SvnRm(b, sc, p) ==
  [q \in DOMAIN sc \cup {x \in DOMAIN b : IsPrefix(p, x)} |->
     IF q \in DOMAIN b /\ IsPrefix(p, q) THEN "delete" ELSE sc[q]]

\* svn add --force . --depth infinity --no-ignore: what it would schedule
Addables(t, b, sc) ==
  {p \in DOMAIN t : SvnVisible(p) /\ ~(p \in DOMAIN b) /\ ~(p \in DOMAIN sc)}
\* svn refuses an addition below a node that is versioned as a file (E145001)
AddRefused(t, b, sc) ==
  \E p \in Addables(t, b, sc) : \E q \in DOMAIN b : IsPrefix(q, p) /\ b[q].kind = "file"
SvnAdd(t, b, sc) ==
  [q \in DOMAIN sc \cup Addables(t, b, sc) |-> IF q \in DOMAIN sc THEN sc[q] ELSE "add"]

\* svn commit refuses a node that changed kind (E145001)
CommitRefused(t, b, sc) == \E e \in StatusEntries(t, b, sc) : e.item = "obstructed"
\* the tree of the new revision
Committed(t, b, sc) ==
  LET dropped == {p \in DOMAIN b : \E q \in DOMAIN sc : sc[q] = "delete" /\ IsPrefix(q, p)}
      added == {p \in DOMAIN sc : sc[p] = "add" /\ p \in DOMAIN t}
      kept == DOMAIN b \ dropped
  IN [p \in kept \cup added |-> IF p \in DOMAIN t THEN t[p] ELSE b[p]]

\* ------------------------------------------------------------------ state
VARIABLES
  pc,             \* where main() is
  platform,       \* os.name
  srcExists,      \* os.path.exists(source_path)
  source,         \* the tree at source_path
  repo,           \* the head revision at svn_url
  prev,           \* how the previous run at this source and url ended
  wcExists,       \* wc_root has been created
  wc,             \* the tree at wc_root
  base,           \* svn's record of the working copy: the versioned tree
  sched,          \* svn's record of the working copy: scheduled changes
  hist,           \* the working copy before the mirror step and after each
  xml,            \* the entries of the last svn status --xml response
  missing_paths,  \* main's missing_paths: the paths parsed out of it
  status_text,    \* get_pending_status: the lines of svn status
  has_changes,    \* get_pending_status: bool(text)
  cmds,           \* the commands run() was given, in order, with their exit
  msgs,           \* the terminal messages printed
  now,            \* the clock, in ticks
  runs,           \* the runs of the script on this machine: where each is, and its wc_root
  temp_dirs,      \* the working copy directories there are, and the runs that wrote into each
  gone,           \* what another process removed from the working copy during the deletion walk
  parse_error,    \* ET.fromstring raised on the status --xml response
  svn_username,   \* os.environ.get("SVN_USERNAME")
  svn_password    \* os.environ.get("SVN_PASSWORD")

vars == <<pc, platform, srcExists, source, repo, prev, wcExists, wc, base, sched,
          hist, xml, missing_paths, status_text, has_changes, cmds, msgs,
          now, runs, temp_dirs, gone, parse_error,
          svn_username, svn_password>>

RepoNames == Names \ {SvnDir}
SourceTrees == Grow(EmptyTree, Names, MaxEntries)
RepoTrees(k) == Grow(EmptyTree, RepoNames, k)
\* a working copy holds its .svn directory, whatever else it holds
WcTrees(k) == Grow((<<SvnDir>> :> DirEntry), Names, k)

NoRun ==
  /\ wcExists = FALSE
  /\ wc = EmptyTree
  /\ base = EmptyTree
  /\ sched = << >>
  /\ hist = << >>
  /\ xml = {}
  /\ missing_paths = {}
  /\ status_text = {}
  /\ has_changes = FALSE
  /\ cmds = << >>
  /\ msgs = << >>
  /\ parse_error = FALSE

\* get_env(name), lines 28-33 and 60-61: None when the variable is not set
Unset == "<unset>"
EnvValues == {Unset, "", "value"}
\* bool(v): None and the empty string are false
Truthy(v) == v \notin {Unset, ""}

\* SVN_USERNAME and SVN_PASSWORD not set
NoCredentials ==
  /\ svn_username = Unset
  /\ svn_password = Unset

\* one run on its own: no other run of the script is about, and no other
\* process at the working copy
OneRun ==
  /\ now = 0
  /\ runs = << >>
  /\ temp_dirs = << >>
  /\ gone = {}

Init ==
  /\ pc = "validate"
  /\ platform \in {"nt", "posix"}
  /\ srcExists \in BOOLEAN
  /\ source \in (IF srcExists THEN SourceTrees ELSE {EmptyTree})
  /\ repo \in RepoTrees(MaxEntries - Size(source))
  /\ prev = "none"
  /\ NoRun
  /\ OneRun
  /\ NoCredentials

\* run(cmd, ...), lines 9-18: the command is traced, then executed.
Cmd(name, arg, rc) == [name |-> name, arg |-> arg, rc |-> rc]
Ran(name) == {i \in DOMAIN cmds : cmds[i].name = name}
ExitCodes == {"0", "nonzero"}
\* (check left out of subprocess.run: no exit status raises)
Raises_Unchecked(rc, check) == FALSE

\* check=True raises CalledProcessError on a nonzero exit
Raises(rc, check) == check /\ rc # "0"

\* (main without its ensure_tool call: from the validation straight on)
Validate_SkipTool ==
  /\ pc = "validate"
  /\ pc' = IF srcExists THEN "mkwc" ELSE "failed"
  /\ UNCHANGED <<platform, srcExists, source, repo, prev, wcExists, wc, base, sched,
                 hist, xml, missing_paths, status_text, has_changes, cmds, msgs,
                 now, runs, temp_dirs, gone, parse_error,
                 svn_username, svn_password>>

\* lines 65-68
Validate ==
  /\ pc = "validate"
  /\ pc' = IF srcExists THEN "ensure_tool" ELSE "failed"
  /\ UNCHANGED <<platform, srcExists, source, repo, prev, wcExists, wc, base, sched,
                 hist, xml, missing_paths, status_text, has_changes, cmds, msgs,
                 now, runs, temp_dirs, gone, parse_error,
                 svn_username, svn_password>>

\* (ensure_tool without its raise: the error is printed and main goes on)
EnsureTool_Swallow ==
  /\ pc = "ensure_tool"
  /\ \E rc \in ExitCodes :
       /\ cmds' = Append(cmds, Cmd("version", Root, rc))
       /\ pc' = "mkwc"
  /\ UNCHANGED <<platform, srcExists, source, repo, prev, wcExists, wc, base, sched,
                 hist, xml, missing_paths, status_text, has_changes, msgs,
                 now, runs, temp_dirs, gone, parse_error,
                 svn_username, svn_password>>

\* ensure_tool("svn"), lines 20-26 and 71
EnsureTool ==
  /\ pc = "ensure_tool"
  /\ \E rc \in ExitCodes :
       /\ cmds' = Append(cmds, Cmd("version", Root, rc))
       /\ pc' = IF Raises(rc, TRUE) THEN "failed" ELSE "mkwc"
  /\ UNCHANGED <<platform, srcExists, source, repo, prev, wcExists, wc, base, sched,
                 hist, xml, missing_paths, status_text, has_changes, msgs,
                 now, runs, temp_dirs, gone, parse_error,
                 svn_username, svn_password>>

\* os.makedirs(wc_root, exist_ok=True), lines 79-82.  The run forms the name
\* in a second of its own, so the directory is new (SpecRuns has the runs
\* that share a second).
MakeWc ==
  /\ pc = "mkwc"
  /\ wcExists' = TRUE
  /\ wc' = EmptyTree
  /\ pc' = "checkout"
  /\ UNCHANGED <<platform, srcExists, source, repo, prev, base, sched,
                 hist, xml, missing_paths, status_text, has_changes, cmds, msgs,
                 now, runs, temp_dirs, gone, parse_error,
                 svn_username, svn_password>>

\* (the test of line 86 with `or` for `and`)
CheckoutCreds_Either ==
  IF Truthy(svn_username) \/ Truthy(svn_password)
    THEN <<"--username", svn_username, "--password", svn_password, "--no-auth-cache">>
    ELSE << >>

\* if svn_username and svn_password: checkout_cmd += [...], lines 86-87
CheckoutCreds ==
  IF Truthy(svn_username) /\ Truthy(svn_password)
    THEN <<"--username", svn_username, "--password", svn_password, "--no-auth-cache">>
    ELSE << >>

\* svn checkout, lines 85-88
Checkout ==
  /\ pc = "checkout"
  /\ \E rc \in ExitCodes :
       /\ cmds' = Append(cmds, Cmd("checkout", CheckoutCreds, rc))
       /\ IF Raises(rc, TRUE)
            THEN pc' = "failed" /\ UNCHANGED <<wc, base>>
            ELSE pc' = "update" /\ wc' = repo @@ FreshMeta /\ base' = repo
  /\ UNCHANGED <<platform, srcExists, source, repo, prev, wcExists, sched,
                 hist, xml, missing_paths, status_text, has_changes, msgs,
                 now, runs, temp_dirs, gone, parse_error,
                 svn_username, svn_password>>

\* svn update, lines 91-92: nobody else commits during the run
Update ==
  /\ pc = "update"
  /\ \E rc \in ExitCodes :
       /\ ~MetaIntact(wc) => rc # "0"
       /\ cmds' = Append(cmds, Cmd("update", Root, rc))
       /\ pc' = IF Raises(rc, TRUE) THEN "failed" ELSE "mirror"
  /\ UNCHANGED <<platform, srcExists, source, repo, prev, wcExists, wc, base, sched,
                 hist, xml, missing_paths, status_text, has_changes, msgs,
                 now, runs, temp_dirs, gone, parse_error,
                 svn_username, svn_password>>

\* robocopy exits 0 when nothing was to do, 1..7 when it copied or purged,
\* 8 and above when it failed
RobocopyCodes == {"0", "info", "error"}

\* (robocopy run with run()'s default, check=True)
Robocopy_Checked ==
  /\ pc = "mirror"
  /\ platform = "nt"
  /\ \E rc \in RobocopyCodes :
       /\ rc = "0" => RobocopyMirror(source, wc) = wc
       /\ rc = "info" => RobocopyMirror(source, wc) # wc
       /\ cmds' = Append(cmds, Cmd("robocopy", Root, rc))
       /\ wc' = IF rc = "error" THEN wc ELSE RobocopyMirror(source, wc)
       /\ pc' = IF Raises(rc, TRUE) THEN "failed" ELSE "status_xml"
  /\ hist' = <<wc, wc'>>
  /\ UNCHANGED <<platform, srcExists, source, repo, prev, wcExists, base, sched,
                 xml, missing_paths, status_text, has_changes, msgs,
                 now, runs, temp_dirs, gone, parse_error,
                 svn_username, svn_password>>

\* lines 95-104: run(robocopy_cmd, check=False)
Robocopy ==
  /\ pc = "mirror"
  /\ platform = "nt"
  /\ \E rc \in RobocopyCodes :
       /\ rc = "0" => RobocopyMirror(source, wc) = wc
       /\ rc = "info" => RobocopyMirror(source, wc) # wc
       /\ cmds' = Append(cmds, Cmd("robocopy", Root, rc))
       /\ wc' = IF rc = "error" THEN wc ELSE RobocopyMirror(source, wc)
       /\ pc' = IF Raises(rc, FALSE) THEN "failed" ELSE "status_xml"
  /\ hist' = <<wc, wc'>>
  /\ UNCHANGED <<platform, srcExists, source, repo, prev, wcExists, base, sched,
                 xml, missing_paths, status_text, has_changes, msgs,
                 now, runs, temp_dirs, gone, parse_error,
                 svn_username, svn_password>>

\* lines 108-125
DeletionWalk ==
  /\ pc = "mirror"
  /\ platform # "nt"
  /\ wc' = DeletionPass(source, wc)
  /\ hist' = IF hist = << >> THEN <<wc>> ELSE hist
  /\ pc' = "copy"
  /\ UNCHANGED <<platform, srcExists, source, repo, prev, wcExists, base, sched,
                 xml, missing_paths, status_text, has_changes, cmds, msgs,
                 now, runs, temp_dirs, gone, parse_error,
                 svn_username, svn_password>>

\* lines 127-132; an exception ends the run
CopyWalkStep ==
  /\ pc = "copy"
  /\ \E order \in Orders :
       LET r == CopyPass(source, wc, order)
       IN /\ wc' = r.tree
          /\ pc' = IF r.ok THEN "status_xml" ELSE "failed"
          /\ hist' = IF r.ok THEN Append(hist, r.tree) ELSE hist
  /\ UNCHANGED <<platform, srcExists, source, repo, prev, wcExists, base, sched,
                 xml, missing_paths, status_text, has_changes, cmds, msgs,
                 now, runs, temp_dirs, gone, parse_error,
                 svn_username, svn_password>>

\* (the parse guarded by try/except: an unparseable response is taken to
\* list nothing missing)
StatusXml_Lenient ==
  /\ pc = "status_xml"
  /\ \E rc \in ExitCodes, wellFormed \in BOOLEAN :
       /\ ~MetaIntact(wc) => rc # "0"
       /\ rc # "0" => wellFormed
       /\ cmds' = Append(cmds, Cmd("status_xml", Root, rc))
       /\ parse_error' = ~wellFormed
       /\ IF Raises(rc, TRUE)
            THEN pc' = "failed" /\ UNCHANGED <<xml, missing_paths>>
            ELSE /\ pc' = "reconcile"
                 /\ xml' = IF wellFormed THEN StatusEntries(wc, base, sched) ELSE {}
                 /\ missing_paths' = MissingPaths(xml')
  /\ UNCHANGED <<platform, srcExists, source, repo, prev, wcExists, wc, base, sched,
                 hist, status_text, has_changes, msgs,
                 now, runs, temp_dirs, gone,
                 svn_username, svn_password>>

\* parse_missing_paths_from_svn_status_xml(wc_root), lines 35-48 and 135.
\* ET.fromstring raises on a response that is not well-formed XML.
StatusXml ==
  /\ pc = "status_xml"
  /\ \E rc \in ExitCodes, wellFormed \in BOOLEAN :
       /\ ~MetaIntact(wc) => rc # "0"
       /\ rc # "0" => wellFormed
       /\ cmds' = Append(cmds, Cmd("status_xml", Root, rc))
       /\ parse_error' = ~wellFormed
       /\ IF Raises(rc, TRUE) \/ ~wellFormed
            THEN pc' = "failed" /\ UNCHANGED <<xml, missing_paths>>
            ELSE /\ pc' = "reconcile"
                 /\ xml' = StatusEntries(wc, base, sched)
                 /\ missing_paths' = MissingPaths(xml')
  /\ UNCHANGED <<platform, srcExists, source, repo, prev, wcExists, wc, base, sched,
                 hist, status_text, has_changes, msgs,
                 now, runs, temp_dirs, gone,
                 svn_username, svn_password>>

\* for p in missing_paths: run(["svn", "rm", "--force", p]), lines 136-138.
\* svn lists a directory before what is under it.
RmDone == {cmds[i].arg : i \in {j \in Ran("rm") : cmds[j].rc = "0"}}

Rm ==
  /\ pc = "reconcile"
  /\ \E p \in missing_paths \ RmDone, rc \in ExitCodes :
       /\ \A q \in missing_paths \ RmDone : IsPrefix(q, p) => q = p
       /\ ~MetaIntact(wc) => rc # "0"
       /\ cmds' = Append(cmds, Cmd("rm", p, rc))
       /\ IF Raises(rc, TRUE)
            THEN pc' = "failed" /\ UNCHANGED <<wc, sched>>
            ELSE /\ pc' = "reconcile"
                 /\ wc' = Remove(wc, {p})
                 /\ sched' = SvnRm(base, sched, p)
  /\ UNCHANGED <<platform, srcExists, source, repo, prev, wcExists, base,
                 hist, xml, missing_paths, status_text, has_changes, msgs,
                 now, runs, temp_dirs, gone, parse_error,
                 svn_username, svn_password>>

\* (main without its svn add)
Add_Skipped ==
  /\ pc = "reconcile"
  /\ missing_paths \subseteq RmDone
  /\ pc' = "status"
  /\ UNCHANGED <<platform, srcExists, source, repo, prev, wcExists, wc, base, sched,
                 hist, xml, missing_paths, status_text, has_changes, cmds, msgs,
                 now, runs, temp_dirs, gone, parse_error,
                 svn_username, svn_password>>

\* (the add ahead of the loop's end: not every missing path removed yet)
Add_Early ==
  /\ pc = "reconcile"
  /\ \E rc \in ExitCodes :
       /\ (~MetaIntact(wc) \/ AddRefused(wc, base, sched)) => rc # "0"
       /\ cmds' = Append(cmds, Cmd("add", Root, rc))
       /\ IF Raises(rc, TRUE)
            THEN pc' = "failed" /\ UNCHANGED sched
            ELSE pc' = "status" /\ sched' = SvnAdd(wc, base, sched)
  /\ UNCHANGED <<platform, srcExists, source, repo, prev, wcExists, wc, base,
                 hist, xml, missing_paths, status_text, has_changes, msgs,
                 now, runs, temp_dirs, gone, parse_error,
                 svn_username, svn_password>>

\* svn add --force . ..., line 141, once the loop is through
Add ==
  /\ pc = "reconcile"
  /\ missing_paths \subseteq RmDone
  /\ \E rc \in ExitCodes :
       /\ (~MetaIntact(wc) \/ AddRefused(wc, base, sched)) => rc # "0"
       /\ cmds' = Append(cmds, Cmd("add", Root, rc))
       /\ IF Raises(rc, TRUE)
            THEN pc' = "failed" /\ UNCHANGED sched
            ELSE pc' = "status" /\ sched' = SvnAdd(wc, base, sched)
  /\ UNCHANGED <<platform, srcExists, source, repo, prev, wcExists, wc, base,
                 hist, xml, missing_paths, status_text, has_changes, msgs,
                 now, runs, temp_dirs, gone, parse_error,
                 svn_username, svn_password>>

\* get_pending_status(wc_root), lines 50-54 and 144-145.  svn status prints
\* one line per entry it reports and nothing else, so cp.stdout.strip() is
\* the empty string exactly when there is no entry.
Status ==
  /\ pc = "status"
  /\ \E rc \in ExitCodes :
       /\ ~MetaIntact(wc) => rc # "0"
       /\ cmds' = Append(cmds, Cmd("status", Root, rc))
       /\ IF Raises(rc, TRUE)
            THEN pc' = "failed" /\ UNCHANGED <<status_text, has_changes>>
            ELSE /\ pc' = "decide"
                 /\ status_text' = StatusEntries(wc, base, sched)
                 /\ has_changes' = (status_text' # {})
  /\ UNCHANGED <<platform, srcExists, source, repo, prev, wcExists, wc, base, sched,
                 hist, xml, missing_paths, msgs,
                 now, runs, temp_dirs, gone, parse_error,
                 svn_username, svn_password>>

NoChangesMsg == "No changes detected. Skipping commit."
CommitMsg == "Commit finished successfully."

\* (main without the early return: the commit is run whatever the status)
Decide_NoGate ==
  /\ pc = "decide"
  /\ pc' = "commit"
  /\ UNCHANGED <<platform, srcExists, source, repo, prev, wcExists, wc, base, sched,
                 hist, xml, missing_paths, status_text, has_changes, cmds, msgs,
                 now, runs, temp_dirs, gone, parse_error,
                 svn_username, svn_password>>

\* if not has_changes: print(...); return, lines 147-149
Decide ==
  /\ pc = "decide"
  /\ IF ~has_changes
       THEN pc' = "done" /\ msgs' = Append(msgs, NoChangesMsg)
       ELSE pc' = "commit" /\ UNCHANGED msgs
  /\ UNCHANGED <<platform, srcExists, source, repo, prev, wcExists, wc, base, sched,
                 hist, xml, missing_paths, status_text, has_changes, cmds,
                 now, runs, temp_dirs, gone, parse_error,
                 svn_username, svn_password>>

\* if svn_username and svn_password: commit_cmd += [...], lines 153-154
CommitCreds ==
  IF Truthy(svn_username) /\ Truthy(svn_password)
    THEN <<"--username", svn_username, "--password", svn_password, "--no-auth-cache">>
    ELSE << >>

\* (the success message printed ahead of the commit command)
Commit_MsgFirst ==
  /\ pc = "commit"
  /\ \E rc \in ExitCodes :
       /\ (~MetaIntact(wc) \/ CommitRefused(wc, base, sched)) => rc # "0"
       /\ cmds' = Append(cmds, Cmd("commit", CommitCreds, rc))
       /\ msgs' = Append(msgs, CommitMsg)
       /\ IF Raises(rc, TRUE)
            THEN pc' = "failed" /\ UNCHANGED <<repo, base, sched>>
            ELSE /\ pc' = "done"
                 /\ repo' = Committed(wc, base, sched)
                 /\ base' = repo'
                 /\ sched' = << >>
  /\ UNCHANGED <<platform, srcExists, source, prev, wcExists, wc,
                 hist, xml, missing_paths, status_text, has_changes,
                 now, runs, temp_dirs, gone, parse_error,
                 svn_username, svn_password>>

\* svn commit, lines 152-157
Commit ==
  /\ pc = "commit"
  /\ \E rc \in ExitCodes :
       /\ (~MetaIntact(wc) \/ CommitRefused(wc, base, sched)) => rc # "0"
       /\ cmds' = Append(cmds, Cmd("commit", CommitCreds, rc))
       /\ IF Raises(rc, TRUE)
            THEN pc' = "failed" /\ UNCHANGED <<repo, base, sched, msgs>>
            ELSE /\ pc' = "done"
                 /\ repo' = Committed(wc, base, sched)
                 /\ base' = repo'
                 /\ sched' = << >>
                 /\ msgs' = Append(msgs, CommitMsg)
  /\ UNCHANGED <<platform, srcExists, source, prev, wcExists, wc,
                 hist, xml, missing_paths, status_text, has_changes,
                 now, runs, temp_dirs, gone, parse_error,
                 svn_username, svn_password>>

\* The next run of the script, on the same machine, source and url, after a
\* run that ended well: a new process, a new working copy directory.
NextRun ==
  /\ pc = "done"
  /\ prev = "none"
  /\ prev' = IF Ran("commit") # {} THEN "committed" ELSE "nochange"
  /\ pc' = "validate"
  /\ wcExists' = FALSE
  /\ wc' = EmptyTree
  /\ base' = EmptyTree
  /\ sched' = << >>
  /\ hist' = << >>
  /\ xml' = {}
  /\ missing_paths' = {}
  /\ status_text' = {}
  /\ has_changes' = FALSE
  /\ cmds' = << >>
  /\ msgs' = << >>
  /\ parse_error' = FALSE
  /\ UNCHANGED <<platform, srcExists, source, repo,
                 now, runs, temp_dirs, gone,
                 svn_username, svn_password>>

Next ==
  \/ Validate
  \/ EnsureTool
  \/ MakeWc
  \/ Checkout
  \/ Update
  \/ Robocopy
  \/ DeletionWalk
  \/ CopyWalkStep
  \/ StatusXml
  \/ Rm
  \/ Add
  \/ Status
  \/ Decide
  \/ Commit
  \/ NextRun

Spec == Init /\ [][Next]_vars

\* ------------------------------------- runs with credentials in the environment
\* main() as above, with SVN_USERNAME and SVN_PASSWORD each unset, empty or
\* set, on a source and a repository of one entry at most.
InitAuth ==
  /\ pc = "validate"
  /\ platform \in {"nt", "posix"}
  /\ srcExists = TRUE
  /\ source \in Grow(EmptyTree, RepoNames, 1)
  /\ repo \in Grow(EmptyTree, RepoNames, 1)
  /\ prev = "none"
  /\ NoRun
  /\ OneRun
  /\ svn_username \in EnvValues
  /\ svn_password \in EnvValues

SpecAuth == InitAuth /\ [][Next]_vars

\* ------------------------------------------- the mirror step on its own
\* The portable mirror applied to any source tree and any working copy that
\* is there before it, and applied again to what it leaves.
InitMirror ==
  /\ pc = "mirror"
  /\ platform = "posix"
  /\ srcExists = TRUE
  /\ source \in SourceTrees
  /\ wc \in WcTrees(MaxEntries - Size(source))
  /\ wcExists = TRUE
  /\ repo = EmptyTree
  /\ prev = "none"
  /\ base = EmptyTree
  /\ sched = << >>
  /\ hist = << >>
  /\ xml = {}
  /\ missing_paths = {}
  /\ status_text = {}
  /\ has_changes = FALSE
  /\ cmds = << >>
  /\ msgs = << >>
  /\ parse_error = FALSE
  /\ OneRun
  /\ NoCredentials

\* the mirror step once more, the source unchanged
MirrorAgain ==
  /\ pc = "status_xml"
  /\ Len(hist) = 2
  /\ pc' = "mirror"
  /\ UNCHANGED <<platform, srcExists, source, repo, prev, wcExists, wc, base, sched,
                 hist, xml, missing_paths, status_text, has_changes, cmds, msgs,
                 now, runs, temp_dirs, gone, parse_error,
                 svn_username, svn_password>>

NextMirror == DeletionWalk \/ CopyWalkStep \/ MirrorAgain

SpecMirror == InitMirror /\ [][NextMirror]_vars

\* ------------------------------- the mirror step with another process about
\* lines 108-125, the working copy not this run's alone
DeletionWalkRaced ==
  /\ pc = "mirror"
  /\ platform # "nt"
  /\ \E away \in SUBSET DOMAIN wc, order \in Orders :
       LET r == DeletionPassRaced(source, wc, order, away)
       IN /\ gone' = away
          /\ wc' = r.tree
          /\ pc' = IF r.ok THEN "copy" ELSE "failed"
  /\ hist' = IF hist = << >> THEN <<wc>> ELSE hist
  /\ UNCHANGED <<platform, srcExists, source, repo, prev, wcExists, base, sched,
                 xml, missing_paths, status_text, has_changes, cmds, msgs,
                 now, runs, temp_dirs, parse_error,
                 svn_username, svn_password>>

NextRace == DeletionWalkRaced \/ CopyWalkStep

SpecRace == InitMirror /\ [][NextRace]_vars

\* ------------------------------------- runs that share the machine's clock
\* Lines 78-88 for several runs of the script, one after another or at the
\* same time.  What a run puts into its working copy is the subject of Spec;
\* here it is which directory a run binds, and which runs write into it.
\* A working copy directory made in the source directory is an entry of the
\* source tree; what a run then writes inside it is not followed here.
MaxTime == 3
Runs == {1, 2}
\* datetime.now() has a finer resolution than the %S its value is cut to
TicksPerSecond == 2
\* RUNNER_TEMP (or tempfile.gettempdir()): a directory apart from the
\* source tree, or the directory SOURCE_PATH names
TempDirs == {"temp", "source"}

\* (the name cut to the minute, %Y%m%d-%H%M; a model minute is two seconds)
Timestamp_Minute(t) == t \div (2 * TicksPerSecond)

\* f"{datetime.datetime.now():%Y%m%d-%H%M%S}", line 80
Timestamp(t) == t \div TicksPerSecond

WcName(t) == "svn-wc-" \o ToString(Timestamp(t))
\* os.path.join(runner_temp, name)
WcRoot(temp, name) == [temp |-> temp, name |-> name]
Unbound == WcRoot("", "")

InitRuns ==
  /\ pc = "runs"
  /\ platform = "posix"
  /\ srcExists = TRUE
  /\ source \in Grow(EmptyTree, RepoNames, 1)
  /\ repo = EmptyTree
  /\ prev = "none"
  /\ NoRun
  /\ now = 0
  /\ runs \in [Runs -> {[pc |-> "mkwc", runner_temp |-> d, wc_root |-> Unbound, named_at |-> 0] :
                         d \in TempDirs}]
  /\ temp_dirs = << >>
  /\ gone = {}
  /\ NoCredentials

Tick ==
  /\ pc = "runs"
  /\ now < MaxTime
  /\ now' = now + 1
  /\ UNCHANGED <<pc, platform, srcExists, source, repo, prev, wcExists, wc, base, sched,
                 hist, xml, missing_paths, status_text, has_changes, cmds, msgs,
                 runs, temp_dirs, gone, parse_error,
                 svn_username, svn_password>>

\* wc_root = os.path.join(runner_temp, f"svn-wc-{now:...}"), lines 79-80
RunName(r) ==
  /\ pc = "runs"
  /\ runs[r].pc = "mkwc"
  /\ runs' = [runs EXCEPT ![r].pc = "makedirs",
                          ![r].wc_root = WcRoot(runs[r].runner_temp, WcName(now)),
                          ![r].named_at = now]
  /\ UNCHANGED <<pc, platform, srcExists, source, repo, prev, wcExists, wc, base, sched,
                 hist, xml, missing_paths, status_text, has_changes, cmds, msgs,
                 now, temp_dirs, gone, parse_error,
                 svn_username, svn_password>>

\* os.makedirs(wc_root, exist_ok=True), line 81: a directory that is there
\* already is taken as it is
RunMakeDirs(r) ==
  /\ pc = "runs"
  /\ runs[r].pc = "makedirs"
  /\ LET d == runs[r].wc_root
     IN /\ temp_dirs' = IF d \in DOMAIN temp_dirs THEN temp_dirs ELSE (d :> {}) @@ temp_dirs
        /\ source' = IF d.temp = "source" /\ ~Exists(source, <<d.name>>)
                       THEN Put(source, <<d.name>>, DirEntry) ELSE source
  /\ runs' = [runs EXCEPT ![r].pc = "checkout"]
  /\ UNCHANGED <<pc, platform, srcExists, repo, prev, wcExists, wc, base, sched,
                 hist, xml, missing_paths, status_text, has_changes, cmds, msgs,
                 now, gone, parse_error,
                 svn_username, svn_password>>

\* what a run writes goes into the directory its wc_root names
WriteWc(r) ==
  LET d == runs[r].wc_root
  IN temp_dirs' = [temp_dirs EXCEPT ![d] = @ \cup {r}]

\* svn checkout svn_url wc_root, lines 85-88
RunCheckout(r) ==
  /\ pc = "runs"
  /\ runs[r].pc = "checkout"
  /\ WriteWc(r)
  /\ \E rc \in ExitCodes :
       runs' = [runs EXCEPT ![r].pc = IF Raises(rc, TRUE) THEN "failed" ELSE "update"]
  /\ UNCHANGED <<pc, platform, srcExists, source, repo, prev, wcExists, wc, base, sched,
                 hist, xml, missing_paths, status_text, has_changes, cmds, msgs,
                 now, gone, parse_error,
                 svn_username, svn_password>>

\* lines 90-157, all of it with cwd=wc_root or writing below wc_root
RunRest(r) ==
  /\ pc = "runs"
  /\ runs[r].pc = "update"
  /\ WriteWc(r)
  /\ \E end \in {"done", "failed"} : runs' = [runs EXCEPT ![r].pc = end]
  /\ UNCHANGED <<pc, platform, srcExists, source, repo, prev, wcExists, wc, base, sched,
                 hist, xml, missing_paths, status_text, has_changes, cmds, msgs,
                 now, gone, parse_error,
                 svn_username, svn_password>>

NextRuns ==
  \/ Tick
  \/ \E r \in Runs : RunName(r)
  \/ \E r \in Runs : RunMakeDirs(r)
  \/ \E r \in Runs : RunCheckout(r)
  \/ \E r \in Runs : RunRest(r)

SpecRuns == InitRuns /\ [][NextRuns]_vars

\* ----------------------------------------------------------------- claims
\* the mirror step has run to its end, for the first time in this run
Mirrored == pc = "status_xml" /\ Len(hist) = 2
Files(t) == Restrict(t, {p \in DOMAIN t : t[p].kind = "file"})
Count(name) == Cardinality(Ran(name))
Failed(name) == \E i \in Ran(name) : cmds[i].rc # "0"

\* C1 (as claimed): when the portable mirror completes, every entry of the
\* source tree is in the working copy at the same path, the same kind and
\* content, and the working copy holds nothing else outside its root .svn.
C1_MirrorCompleteness ==
  (Mirrored /\ platform = "posix") =>
    /\ \A p \in DOMAIN source : p \in DOMAIN wc /\ wc[p] = source[p]
    /\ \A p \in DOMAIN wc : p \in DOMAIN source \/ IsPrefix(<<SvnDir>>, p)

\* C2: a run that got past the commit decision has invoked svn commit not at
\* all when the stripped status text was empty, and exactly once when it was
\* not; and svn commit is never invoked without a non-empty status text.
PastDecision == pc \in {"done", "failed"} /\ \E i \in Ran("status") : cmds[i].rc = "0"
C2_CommitGating ==
  /\ PastDecision => Count("commit") = (IF status_text = {} THEN 0 ELSE 1)
  /\ Count("commit") > 0 => (status_text # {} /\ Count("commit") = 1)
\* the second run found nothing to commit, after a first run that committed
C2_Witness ==
  /\ prev = "committed" /\ pc = "done"
  /\ status_text = {} /\ Count("commit") = 0 /\ Count("status") = 1

\* C3 (as claimed, for the portable strategy and a source tree that has no
\* entry named .svn, which svn would not version): after a run that ends with
\* a successful commit, the files of the head revision are the files of the
\* source tree, path by path and content by content.
C3_EndToEnd ==
  (/\ pc = "done" /\ Count("commit") = 1
   /\ platform = "posix"
   /\ \A p \in DOMAIN source : SvnVisible(p))
  => Files(repo) = Files(source)

\* C4: once the forced removes and the broad add are through, no path that
\* the status --xml response listed as missing is missing to svn any more.
Reconciled == pc \in {"status", "decide", "commit", "done"}
C4_MissingReconciled ==
  Reconciled =>
    \A e \in xml : e.item = "missing" => ItemState(wc, base, sched, e.path) # "missing"
\* a directory and a file under it were both listed missing, and reconciled
C4_Witness ==
  /\ pc = "status"
  /\ \E e, f \in xml :
       /\ e.item = "missing" /\ f.item = "missing"
       /\ e.path # f.path /\ IsPrefix(e.path, f.path)

\* C5: with the source path absent, or svn --version failing, the run has
\* failed (or is about to) with no working copy directory created and no
\* command invoked beyond the version probe.
C5_PreconditionAbort ==
  /\ ~srcExists => (pc \in {"validate", "failed"} /\ ~wcExists /\ cmds = << >>)
  /\ Failed("version") => (pc = "failed" /\ ~wcExists /\ Len(cmds) = 1)
C5_Witness == pc = "failed" /\ srcExists /\ Failed("version") /\ repo # EmptyTree

\* C6: a command run with check=True that exits nonzero is the last command
\* of the run, which has failed; and a failed run takes no further step (no
\* later stage, no retry, no rollback, no removal of the working copy).
C6_FailFast ==
  /\ [](\A i \in DOMAIN cmds :
          (cmds[i].rc # "0" /\ cmds[i].name # "robocopy") => (i = Len(cmds) /\ pc = "failed"))
  /\ [][pc # "failed"]_vars
\* the broad add failed after a forced remove had gone through
C6_Witness == pc = "failed" /\ Failed("add") /\ Count("rm") > 0 /\ wcExists

\* C7: the portable mirror run a second time on what the first run left,
\* the source unchanged, completes and leaves the working copy as it was.
C7_MirrorIdempotent ==
  /\ Len(hist) = 3 => hist[3] = hist[2]
  /\ (pc = "failed" /\ platform = "posix") => Len(hist) < 2
\* the second mirror is through, and the first had deleted and copied
C7_Witness ==
  /\ Len(hist) = 3 /\ pc = "status_xml"
  /\ \E p \in DOMAIN hist[1] : ~(p \in DOMAIN hist[2])
  /\ \E p \in DOMAIN hist[2] : ~(p \in DOMAIN hist[1])

\* C8: in the run after one that committed, the source unchanged, the status
\* after reconciliation is empty and svn commit is not invoked.
C8_NoOpSync ==
  prev = "committed" =>
    /\ pc # "commit" /\ Count("commit") = 0
    /\ pc \in {"decide", "done"} => (status_text = {} /\ ~has_changes)
    /\ pc = "done" => msgs = <<NoChangesMsg>>
C8_Witness ==
  /\ prev = "committed" /\ pc = "done" /\ msgs = <<NoChangesMsg>>
  /\ platform = "posix" /\ Len(hist) = 2 /\ hist[2] # hist[1]

\* C9 (as claimed, for a working copy that holds nothing but its .svn and
\* what is in it): the portable mirror leaves the working copy as the
\* platform mirror (robocopy /MIR /XD .svn) would have left it.
C9_StrategyEquivalence ==
  (Mirrored /\ platform = "posix" /\ NoMeta(hist[1]) = EmptyTree)
  => wc = RobocopyMirror(source, hist[1])

\* C10 (as claimed): the mirror step leaves what is at or under the working
\* copy's .svn as it was.
C10_MetadataUntouched ==
  (hist # << >> /\ platform = "posix") => Meta(wc) = Meta(hist[1])

\* C11 (as claimed): any two runs bind different working copy directories,
\* and no working copy directory is written into by more than one run.
Bound(r) == runs[r].wc_root # Unbound
SameSecond(t, u) == t \div TicksPerSecond = u \div TicksPerSecond
Pipeline ==
  <<"version", "checkout", "update">>
  \o (IF platform = "nt" THEN <<"robocopy">> ELSE << >>)
  \o <<"status_xml", "add", "status", "commit">>
NotRm(c) == c.name # "rm"
Stages == SelectSeq(cmds, NotRm)
C12_StageOrder ==
  /\ Len(Stages) <= Len(Pipeline)
  /\ \A i \in DOMAIN Stages : Stages[i].name = Pipeline[i]
  /\ cmds # << >> => srcExists /\ pc # "validate"
  /\ wcExists => (Count("version") = 1 /\ ~Failed("version"))
  /\ Count("checkout") > 0 => wcExists
  /\ hist # << >> => (Count("update") = 1 /\ ~Failed("update"))
  /\ Count("status_xml") > 0 => Len(hist) = 2
  /\ \A i \in Ran("rm") : i > 1 /\ cmds[i - 1].name \in {"status_xml", "rm"}
  /\ pc = "done" =>
       \/ Len(Stages) = Len(Pipeline)
       \/ Len(Stages) = Len(Pipeline) - 1 /\ msgs = <<NoChangesMsg>>
\* a run on the platform strategy through every stage, forced removes and
\* the commit among them
C12_Witness ==
  /\ pc = "done" /\ platform = "nt"
  /\ Count("rm") > 1 /\ Count("commit") = 1
  /\ Len(Stages) = Len(Pipeline)

\* C13: when the broad add is invoked, every path parsed as missing has had
\* its forced remove, one each, and before the add; a forced remove is only
\* ever given a missing path, never the same path twice and never once the
\* add has been invoked; the add is invoked once at most, on the working
\* copy root, and has been invoked in every run that got past reconciling.
RmOf(p) == {j \in Ran("rm") : cmds[j].arg = p}
C13_RemoveBeforeAdd ==
  /\ \A i \in Ran("add") :
       /\ cmds[i].arg = Root
       /\ \A p \in missing_paths : Cardinality(RmOf(p)) = 1 /\ \A j \in RmOf(p) : j < i
       /\ \A j \in Ran("rm") : j < i
  /\ \A j \in Ran("rm") : cmds[j].arg \in missing_paths /\ RmOf(cmds[j].arg) = {j}
  /\ Count("add") <= 1
  /\ Reconciled => Count("add") = 1
\* the add went through after two forced removes or more
C13_Witness ==
  /\ pc = "status" /\ ~Failed("add")
  /\ Cardinality(missing_paths) >= 2
  /\ Count("rm") = Cardinality(missing_paths)

\* C14: whatever robocopy exits with, the run is not failed by it: right
\* after robocopy the run is about to query the status, and the command that
\* follows robocopy is the status --xml of the reconciliation.
C14_MirrorExitTolerated ==
  \A i \in Ran("robocopy") :
    /\ i = Len(cmds) => pc = "status_xml"
    /\ i < Len(cmds) => cmds[i + 1].name = "status_xml"
\* robocopy reported a failure and the reconciliation went on to its add
C14_Witness ==
  /\ platform = "nt" /\ Failed("robocopy")
  /\ \E i \in Ran("robocopy") : cmds[i].rc = "error"
  /\ Count("add") = 1 /\ pc = "status"

\* C15 (as claimed): when an entry that the deletion pass is to delete (it is
\* in the working copy, outside the root .svn, and the source has nothing at
\* its path) has been removed by another process by the time the delete is
\* attempted, the deletion pass still runs to its end and the copy pass
\* follows.
Selected(src, t) ==
  {p \in DOMAIN t : /\ ~IsPrefix(<<SvnDir>>, p)
                    /\ ~Exists(src, p)
                    /\ Exists(src, Parent(p))}
C15_BestEffortDeletion ==
  [][(pc = "mirror" /\ gone' \cap Selected(source, wc) # {}) => pc' = "copy"]_vars

\* with no other process at the working copy, the walk in listing order is
\* the deletion pass
DeletionPassAlone ==
  \A order \in Orders :
    DeletionPassRaced(source, wc, order, {}) = [tree |-> DeletionPass(source, wc), ok |-> TRUE]

\* C16: a status --xml response that cannot be parsed fails the run there:
\* the status --xml is the run's last command, and no forced remove, add,
\* plain status or commit has been invoked.
C16_MalformedStatusFatal ==
  parse_error =>
    /\ pc = "failed"
    /\ cmds[Len(cmds)].name = "status_xml"
    /\ Count("rm") = 0 /\ Count("add") = 0 /\ Count("status") = 0 /\ Count("commit") = 0
\* the response was unparseable after a mirror that had changed the working copy
C16_Witness ==
  /\ parse_error /\ pc = "failed" /\ ~Failed("status_xml")
  /\ Len(hist) = 2 /\ hist[2] # hist[1]

\* C17: with an empty source tree, the portable mirror completes, whatever
\* files and directories the working copy held, and leaves in the working
\* copy its root .svn, as it was, and nothing else.
C17_EmptySource ==
  source = EmptyTree =>
    /\ pc # "failed"
    /\ Len(hist) >= 2 => (NoMeta(wc) = EmptyTree /\ Meta(wc) = Meta(hist[1]))
\* the working copy held a directory with a file in it, and a file
C17_Witness ==
  /\ source = EmptyTree /\ Mirrored
  /\ \E p, q \in DOMAIN NoMeta(hist[1]) :
       /\ hist[1][p].kind = "dir" /\ hist[1][q].kind = "file" /\ Parent(q) = p
       /\ \E f \in DOMAIN NoMeta(hist[1]) : Len(f) = 1 /\ hist[1][f].kind = "file"
  /\ <<SvnDir>> \in DOMAIN wc

\* C18: a run prints one terminal message at most; a run that ended well
\* has printed exactly one; the no-changes message goes with no commit
\* invoked, the commit-finished message with a commit that was the run's
\* last command and exited 0; a failed run has printed neither.
Printed(m) == \E i \in DOMAIN msgs : msgs[i] = m
C18_TerminalMessages ==
  /\ Len(msgs) <= 1
  /\ pc = "done" => Len(msgs) = 1
  /\ Printed(NoChangesMsg) => (pc = "done" /\ Count("commit") = 0)
  /\ Printed(CommitMsg) =>
       /\ pc = "done" /\ Count("commit") = 1
       /\ cmds[Len(cmds)] = Cmd("commit", cmds[Len(cmds)].arg, "0")
  /\ pc = "failed" => msgs = << >>
\* the run after one that had found nothing to commit ends in kind
C18_Witness ==
  /\ prev = "nochange" /\ pc = "done"
  /\ msgs = <<NoChangesMsg>> /\ Count("status") = 1 /\ Count("commit") = 0

\* C19 (as claimed): no step of a run changes the source tree.
C19_SourceReadOnly == [][source' = source]_vars

\* C20: the checkout and the commit of a run are given the credential
\* arguments exactly when SVN_USERNAME and SVN_PASSWORD are both set and not
\* empty, and then both of them, user name and password together; so either
\* both commands of a run are given them or neither is.
Credentials(c) == c.arg # << >>
C20_CredentialsConsistent ==
  /\ \A i \in Ran("checkout") \cup Ran("commit") :
       /\ Credentials(cmds[i]) <=>
            (svn_username \notin {Unset, ""} /\ svn_password \notin {Unset, ""})
       /\ Credentials(cmds[i]) =>
            cmds[i].arg = <<"--username", svn_username, "--password", svn_password, "--no-auth-cache">>
  /\ \A i \in Ran("checkout"), j \in Ran("commit") : cmds[i].arg = cmds[j].arg
\* a run that checked out and committed with the credentials, and the run
\* after it that checked out with them
C20_Witness ==
  /\ prev = "committed" /\ pc = "done"
  /\ \E i \in Ran("checkout") : Credentials(cmds[i])

====
